---- MODULE Spec2Model ----
(***************************************************************************)
(* Lexer, operator-precedence parser and driver loop of parser.cpp.        *)
(*                                                                         *)
(* Characters and tokens are the integers the C++ code uses: a character   *)
(* is its ASCII code, EOF is -1, the named tokens are -1 .. -5 and every   *)
(* other token is the code of its character.  Strings are sequences of     *)
(* character codes.  Every routine that reads or writes the globals is an  *)
(* operator from a state record to a state record (with its return value   *)
(* in the field "res" where it has one); one action is one call of main's  *)
(* start-up or one iteration of mainLoop.                                  *)
(***************************************************************************)
EXTENDS Integers, Sequences, FiniteSets, TLC

VARIABLES
    input,            \* stdin: the characters getchar will deliver
    pos,              \* number of characters of input already delivered
    last_char,        \* getTok's static one-character lookahead
    identifier_str,   \* filled in if tok_identifier
    num_val,          \* filled in if tok_number
    cur_tok,          \* the parser's current token
    BinopPrecedence,  \* std::map<char,int>
    stderr,           \* the lines written to stderr, in order
    pc,               \* "start", "loop", "done" (main), "lex" (lexer alone)
    nread,            \* history: number of getchar calls made
    ntok,             \* history: number of getTok calls made
    at_error,         \* history: the state in which logError was last called
    result            \* history: what the last dispatched parse returned

vars == << input, pos, last_char, identifier_str, num_val, cur_tok,
           BinopPrecedence, stderr, pc, nread, ntok, at_error, result >>

-----------------------------------------------------------------------------
(* Bounds of the checked input families.                                   *)

MaxOperators == 3
MaxLexemes == 3
MaxUnits == 2
MaxArgs == 2
MaxLexCalls == 5
MaxNested == 2

-----------------------------------------------------------------------------
(* Characters.                                                             *)

EOF == -1

Lower == << "a","b","c","d","e","f","g","h","i","j","k","l","m",
            "n","o","p","q","r","s","t","u","v","w","x","y","z" >>
Digit == << "0","1","2","3","4","5","6","7","8","9" >>
Punct == << " ", "!", "(", ")", "*", "+", ",", "-", ".", ";", "<", "\n" >>
PunctCode == << 32, 33, 40, 41, 42, 43, 44, 45, 46, 59, 60, 10 >>

\* The code of the character written as the one-character string c.
Ord(c) ==
    IF \E i \in 1..Len(Lower) : Lower[i] = c
    THEN 96 + (CHOOSE i \in 1..Len(Lower) : Lower[i] = c)
    ELSE IF \E i \in 1..Len(Digit) : Digit[i] = c
    THEN 47 + (CHOOSE i \in 1..Len(Digit) : Digit[i] = c)
    ELSE PunctCode[CHOOSE i \in 1..Len(Punct) : Punct[i] = c]

\* The string written as the sequence t of one-character strings.
Str(t) == [i \in 1..Len(t) |-> Ord(t[i])]

isspace(c) == c \in {9, 10, 11, 12, 13, 32}
isalpha(c) == c \in (65..90) \cup (97..122)
isdigit(c) == c \in 48..57
isalnum(c) == isalpha(c) \/ isdigit(c)
isascii(c) == c \in 0..127

-----------------------------------------------------------------------------
(* Tokens.                                                                 *)

tok_eof == -1
tok_def == -2
tok_extern == -3
tok_identifier == -4
tok_number == -5

-----------------------------------------------------------------------------
(* The globals as one record.                                              *)

NoError == [none |-> TRUE]

State ==
    [ input |-> input, pos |-> pos, last_char |-> last_char, identifier_str |-> identifier_str,
      num_val |-> num_val, cur_tok |-> cur_tok,
      BinopPrecedence |-> BinopPrecedence, stderr |-> stderr,
      nread |-> nread, ntok |-> ntok, at_error |-> at_error,
      result |-> result ]

Becomes(s) ==
    /\ input' = s.input
    /\ pos' = s.pos
    /\ last_char' = s.last_char
    /\ identifier_str' = s.identifier_str
    /\ num_val' = s.num_val
    /\ cur_tok' = s.cur_tok
    /\ BinopPrecedence' = s.BinopPrecedence
    /\ stderr' = s.stderr
    /\ nread' = s.nread
    /\ ntok' = s.ntok
    /\ at_error' = s.at_error
    /\ result' = s.result

-----------------------------------------------------------------------------
(* Arguments are passed by value.  A routine binds each of its parameters  *)
(* once: the capitalised name is the argument as written at the call, the  *)
(* source's name is its value.                                             *)

The(singleton) == CHOOSE x \in singleton : TRUE

-----------------------------------------------------------------------------
(* Lexer.                                                                  *)

\* last_char = getchar()
getchar(S) ==
    The({ (IF s.pos < Len(s.input)
           THEN [s EXCEPT !.last_char = s.input[s.pos + 1], !.pos = @ + 1, !.nread = @ + 1]
           ELSE [s EXCEPT !.last_char = EOF, !.nread = @ + 1])
          : s \in {S} })

RECURSIVE SkipWhitespace(_)
SkipWhitespace(S) ==
    The({ (IF isspace(s.last_char) THEN SkipWhitespace(getchar(s)) ELSE s)
          : s \in {S} })

RECURSIVE ReadIdentifier(_)
ReadIdentifier(S) ==
    The({ (IF isalnum(s1.last_char)
           THEN ReadIdentifier([s1 EXCEPT !.identifier_str = Append(@, s1.last_char)])
           ELSE s1)
          : s1 \in {getchar(S)} })

\* do { num_str += last_char; last_char = getchar(); } while (digit or '.')
RECURSIVE ReadNumber(_, _)
ReadNumber(S, Num_str) ==
    The({ (IF isdigit(s1.last_char) \/ s1.last_char = 46
           THEN ReadNumber(s1, str)
           ELSE [st |-> s1, num_str |-> str])
          : s1 \in {getchar(S)}, str \in {Append(Num_str, S.last_char)} })

\* The digits of str from index i up to the first character that is no digit.
RECURSIVE DigitRun(_, _)
DigitRun(str, i) ==
    IF i <= Len(str) /\ isdigit(str[i])
    THEN << str[i] - 48 >> \o DigitRun(str, i + 1)
    ELSE << >>

RECURSIVE DropLeadingZeros(_)
DropLeadingZeros(ds) ==
    IF ds # << >> /\ ds[1] = 0 THEN DropLeadingZeros(Tail(ds)) ELSE ds

RECURSIVE DropTrailingZeros(_)
DropTrailingZeros(ds) ==
    IF ds # << >> /\ ds[Len(ds)] = 0
    THEN DropTrailingZeros(SubSeq(ds, 1, Len(ds) - 1))
    ELSE ds

\* strtod on a string of digits and '.': the longest prefix of the form
\* digits [ '.' digits ] is converted, the rest is ignored; no digit at all
\* converts to zero.  The value is kept as its decimal digits, normalised.
strtod(str) ==
    LET ip == DigitRun(str, 1)
        dot == Len(ip) + 1
        fp == IF dot <= Len(str) /\ str[dot] = 46
              THEN DigitRun(str, dot + 1)
              ELSE << >>
    IN  [int |-> DropLeadingZeros(ip), frac |-> DropTrailingZeros(fp)]

kw_def == Str(<< "d", "e", "f" >>)
kw_extern == Str(<< "e", "x", "t", "e", "r", "n" >>)

\* if (identifier_str == "def") ... return tok_identifier;
getTok_identifier_str(S) ==
    The({ [st |-> s,
           res |-> IF s.identifier_str = kw_def THEN tok_def
                   ELSE IF s.identifier_str = kw_extern THEN tok_extern
                   ELSE tok_identifier]
          : s \in {S} })

\* num_val = strtod(num_str.c_str(), 0); return tok_number;
getTok_num_str(R) ==
    The({ [st |-> [r.st EXCEPT !.num_val = strtod(r.num_str)], res |-> tok_number]
          : r \in {R} })

\* getTok reading on at the end of input.
getTok_eats_eof(S) ==
    The({ (IF isalpha(s.last_char)
           THEN getTok_identifier_str(
                    ReadIdentifier([s EXCEPT !.identifier_str = << s.last_char >>]))
           ELSE IF isdigit(s.last_char) \/ s.last_char = 46
           THEN getTok_num_str(ReadNumber(s, << >>))
           ELSE [st |-> getchar(s), res |-> s.last_char])
          : s \in {SkipWhitespace([S EXCEPT !.ntok = @ + 1])} })

\* getTok: the state after the call, with the returned token in res.
getTok(S) ==
    The({ (IF isalpha(s.last_char)
           THEN getTok_identifier_str(
                    ReadIdentifier([s EXCEPT !.identifier_str = << s.last_char >>]))
           ELSE IF isdigit(s.last_char) \/ s.last_char = 46
           THEN getTok_num_str(ReadNumber(s, << >>))
           ELSE IF s.last_char = EOF
           THEN [st |-> s, res |-> tok_eof]
           ELSE [st |-> getchar(s), res |-> s.last_char])
          : s \in {SkipWhitespace([S EXCEPT !.ntok = @ + 1])} })

\* return cur_tok = getTok();
getNextToken(S) ==
    The({ [r.st EXCEPT !.cur_tok = r.res] : r \in {getTok(S)} })

-----------------------------------------------------------------------------
(* Abstract syntax tree.                                                   *)

nullptr == [type |-> "nullptr"]

NumberExprAST(val) == [type |-> "NumberExprAST", val |-> val]

VariableExprAST(name) == [type |-> "VariableExprAST", name |-> name]

BinaryExprAST(op, lhs, rhs) ==
    [type |-> "BinaryExprAST", op |-> op, lhs |-> lhs, rhs |-> rhs]

CallExprAST(callee, args) ==
    [type |-> "CallExprAST", callee |-> callee, args |-> args]

PrototypeAST(name, args) ==
    [type |-> "PrototypeAST", name |-> name, args |-> args]

FunctionAST(proto, body) ==
    [type |-> "FunctionAST", proto |-> proto, body |-> body]

-----------------------------------------------------------------------------
(* Parser.  A routine returns [st |-> the state after it, res |-> what it  *)
(* returned].                                                              *)

\* std::map<char,int>::operator[] inserts a value-initialised entry for a
\* key that is absent.
getTokPrecedence(S) ==
    The({ (IF ~isascii(s.cur_tok)
           THEN [st |-> s, res |-> -1]
           ELSE LET table == IF s.cur_tok \in DOMAIN s.BinopPrecedence
                             THEN s.BinopPrecedence
                             ELSE s.BinopPrecedence @@ (s.cur_tok :> 0)
                    tok_prec == table[s.cur_tok]
                IN  [st |-> [s EXCEPT !.BinopPrecedence = table],
                     res |-> IF tok_prec <= 0 THEN -1 ELSE tok_prec])
          : s \in {S} })

Message(str) == << "Error", str >>

logError(S, str) ==
    The({ ([st |-> [s EXCEPT !.stderr = Append(@, Message(str)),
                             !.at_error = [s EXCEPT !.at_error = NoError,
                                                    !.result = NoError]],
            res |-> nullptr])
          : s \in {S} })

logErrorP(s, str) == logError(s, str)

\* The expression routines call one another; every such call goes through
\* Call, which dispatches on the routine's name.  expr_prec and arg are the
\* arguments of parseBinOpRHS (arg its lhs), or arg is the vector that
\* parseIdentifierExpr's loop has filled so far.
\*
\* A routine is written as its steps, last step first: the step named
\* routine_x is the rest of the routine from the point where the local x
\* has just been assigned, and takes the locals that are live there.
RECURSIVE Call(_, _, _, _)

parseNumberExpr(S) ==
    The({ ([st |-> getNextToken(s), res |-> NumberExprAST(s.num_val)])
          : s \in {S} })

\* parseParenExpr_v without the getNextToken that eats the ')'.
parseParenExpr_v_keeps_rparen(V) ==
    The({ (IF v.res = nullptr
           THEN v
           ELSE IF v.st.cur_tok # 41
           THEN logError(v.st, "expected ')'")
           ELSE [st |-> v.st, res |-> v.res])
          : v \in {V} })

parseParenExpr_v(V) ==
    The({ (IF v.res = nullptr
           THEN v
           ELSE IF v.st.cur_tok # 41
           THEN logError(v.st, "expected ')'")
           ELSE [st |-> getNextToken(v.st), res |-> v.res])
          : v \in {V} })

parseParenExpr(s) ==
    parseParenExpr_v(Call("parseExpression", getNextToken(s), 0, nullptr))

\* The while (true) loop of parseIdentifierExpr.  returned: the loop left
\* the routine by a return, with res its value; otherwise the loop was left
\* by break and args is the argument vector.
Returned(R) ==
    The({ ([st |-> r.st, res |-> r.res, args |-> << >>, returned |-> TRUE])
          : r \in {R} })

\* parseArguments_arg without the push_back before the loop goes on.
parseArguments_arg_drops(Arg, Args) ==
    The({ (IF arg.res = nullptr
           THEN Returned(arg)
           ELSE IF arg.st.cur_tok = 41
           THEN [st |-> arg.st, res |-> nullptr, args |-> Append(args, arg.res),
                 returned |-> FALSE]
           ELSE IF arg.st.cur_tok # 44
           THEN Returned(logError(arg.st, "Expected ')' or ',' in argument list"))
           ELSE Call("parseArguments", getNextToken(arg.st), 0, args))
          : arg \in {Arg}, args \in {Args} })

parseArguments_arg(Arg, Args) ==
    The({ (IF arg.res = nullptr
           THEN Returned(arg)
           ELSE IF arg.st.cur_tok = 41
           THEN [st |-> arg.st, res |-> nullptr, args |-> Append(args, arg.res),
                 returned |-> FALSE]
           ELSE IF arg.st.cur_tok # 44
           THEN Returned(logError(arg.st, "Expected ')' or ',' in argument list"))
           ELSE Call("parseArguments", getNextToken(arg.st), 0, Append(args, arg.res)))
          : arg \in {Arg}, args \in {Args} })

parseArguments(s, args) ==
    parseArguments_arg(Call("parseExpression", s, 0, nullptr), args)

parseIdentifierExpr_args(id_name, A) ==
    The({ (IF a.returned
           THEN [st |-> a.st, res |-> a.res]
           ELSE [st |-> getNextToken(a.st), res |-> CallExprAST(id_name, a.args)])
          : a \in {A} })

parseIdentifierExpr_call(id_name, S) ==
    The({ (parseIdentifierExpr_args(id_name,
               IF s.cur_tok # 41
               THEN Call("parseArguments", s, 0, << >>)
               ELSE [st |-> s, res |-> nullptr, args |-> << >>, returned |-> FALSE]))
          : s \in {S} })

parseIdentifierExpr_id_name(id_name, S) ==
    The({ (IF s.cur_tok # 40
           THEN [st |-> s, res |-> VariableExprAST(id_name)]
           ELSE parseIdentifierExpr_call(id_name, getNextToken(s)))
          : s \in {S} })

parseIdentifierExpr(S) ==
    The({ (parseIdentifierExpr_id_name(s.identifier_str, getNextToken(s)))
          : s \in {S} })

parsePrimary(S) ==
    The({ (IF s.cur_tok = tok_identifier THEN parseIdentifierExpr(s)
           ELSE IF s.cur_tok = tok_number THEN parseNumberExpr(s)
           ELSE IF s.cur_tok = 40 THEN parseParenExpr(s)
           ELSE logError(s, "unknown token when expecting an expression"))
          : s \in {S} })

\* merge lhs/rhs, and go round the loop again
parseBinOpRHS_merge(expr_prec, Lhs, bin_op, Rhs) ==
    The({ (IF rhs.res = nullptr
           THEN rhs
           ELSE Call("parseBinOpRHS", rhs.st, expr_prec,
                     BinaryExprAST(bin_op, lhs, rhs.res)))
          : lhs \in {Lhs}, rhs \in {Rhs} })

\* parseBinOpRHS_next_prec with the comparison the wrong way round: the
\* pending operator takes rhs only when it binds less tightly.
parseBinOpRHS_next_prec_reversed(expr_prec, lhs, tok_prec, bin_op, Rhs, Next_prec) ==
    The({ (parseBinOpRHS_merge(expr_prec, lhs, bin_op,
               IF next_prec.res < tok_prec
               THEN Call("parseBinOpRHS", next_prec.st, tok_prec + 1, rhs)
               ELSE [st |-> next_prec.st, res |-> rhs]))
          : rhs \in {Rhs}, next_prec \in {Next_prec} })

\* parseBinOpRHS_next_prec with <= for < and tok_prec for tok_prec + 1: an
\* operator of the same precedence takes rhs too.
parseBinOpRHS_next_prec_nonstrict(expr_prec, lhs, tok_prec, bin_op, Rhs, Next_prec) ==
    The({ (parseBinOpRHS_merge(expr_prec, lhs, bin_op,
               IF tok_prec <= next_prec.res
               THEN Call("parseBinOpRHS", next_prec.st, tok_prec, rhs)
               ELSE [st |-> next_prec.st, res |-> rhs]))
          : rhs \in {Rhs}, next_prec \in {Next_prec} })

parseBinOpRHS_next_prec(expr_prec, lhs, tok_prec, bin_op, Rhs, Next_prec) ==
    The({ (parseBinOpRHS_merge(expr_prec, lhs, bin_op,
               IF tok_prec < next_prec.res
               THEN Call("parseBinOpRHS", next_prec.st, tok_prec + 1, rhs)
               ELSE [st |-> next_prec.st, res |-> rhs]))
          : rhs \in {Rhs}, next_prec \in {Next_prec} })

\* parseBinOpRHS_rhs returning what it has built so far when the primary
\* after the operator failed.
parseBinOpRHS_rhs_partial(expr_prec, Lhs, tok_prec, bin_op, Rhs) ==
    The({ (IF rhs.res = nullptr
           THEN [st |-> rhs.st, res |-> lhs]
           ELSE parseBinOpRHS_next_prec(expr_prec, lhs, tok_prec, bin_op, rhs.res,
                                        getTokPrecedence(rhs.st)))
          : lhs \in {Lhs}, rhs \in {Rhs} })

parseBinOpRHS_rhs(expr_prec, Lhs, tok_prec, bin_op, Rhs) ==
    The({ (IF rhs.res = nullptr
           THEN rhs
           ELSE parseBinOpRHS_next_prec(expr_prec, lhs, tok_prec, bin_op, rhs.res,
                                        getTokPrecedence(rhs.st)))
          : lhs \in {Lhs}, rhs \in {Rhs} })

parseBinOpRHS_tok_prec(expr_prec, Lhs, Tok_prec) ==
    The({ (IF tok_prec.res < expr_prec
           THEN [st |-> tok_prec.st, res |-> lhs]
           ELSE parseBinOpRHS_rhs(expr_prec, lhs, tok_prec.res, tok_prec.st.cur_tok,
                                  Call("parsePrimary", getNextToken(tok_prec.st), 0, nullptr)))
          : lhs \in {Lhs}, tok_prec \in {Tok_prec} })

parseBinOpRHS(S, expr_prec, Lhs) ==
    The({ (parseBinOpRHS_tok_prec(expr_prec, lhs, getTokPrecedence(s)))
          : s \in {S}, lhs \in {Lhs} })

parseExpression_lhs(Lhs) ==
    The({ (IF lhs.res = nullptr
           THEN lhs
           ELSE parseBinOpRHS(lhs.st, 0, lhs.res))
          : lhs \in {Lhs} })

parseExpression(s) == parseExpression_lhs(parsePrimary(s))

Call(routine, s, expr_prec, arg) ==
    CASE routine = "parseExpression" -> parseExpression(s)
      [] routine = "parsePrimary" -> parsePrimary(s)
      [] routine = "parseBinOpRHS" -> parseBinOpRHS(s, expr_prec, arg)
      [] routine = "parseArguments" -> parseArguments(s, arg)

\* while (getNextToken() == tok_identifier) arg_names.push_back(identifier_str);
RECURSIVE parseArgNames(_, _)

parseArgNames_tok(S, Arg_names) ==
    The({ (IF s.cur_tok = tok_identifier
           THEN parseArgNames(s, Append(arg_names, s.identifier_str))
           ELSE [st |-> s, res |-> arg_names])
          : s \in {S}, arg_names \in {Arg_names} })

parseArgNames(s, arg_names) == parseArgNames_tok(getNextToken(s), arg_names)

\* parsePrototype_arg_names without the getNextToken that eats the ')'.
parsePrototype_arg_names_keeps_rparen(fn_name, Arg_names) ==
    The({ (IF arg_names.st.cur_tok # 41
           THEN logErrorP(arg_names.st, "Expected ')' in prototype")
           ELSE [st |-> arg_names.st, res |-> PrototypeAST(fn_name, arg_names.res)])
          : arg_names \in {Arg_names} })

parsePrototype_arg_names(fn_name, Arg_names) ==
    The({ (IF arg_names.st.cur_tok # 41
           THEN logErrorP(arg_names.st, "Expected ')' in prototype")
           ELSE [st |-> getNextToken(arg_names.st),
                 res |-> PrototypeAST(fn_name, arg_names.res)])
          : arg_names \in {Arg_names} })

parsePrototype_fn_name(fn_name, S) ==
    The({ (IF s.cur_tok # 40
           THEN logErrorP(s, "Expected '(' in prototype")
           ELSE parsePrototype_arg_names(fn_name, parseArgNames(s, << >>)))
          : s \in {S} })

parsePrototype(S) ==
    The({ (IF s.cur_tok # tok_identifier
           THEN logErrorP(s, "Expected function name in prototype")
           ELSE parsePrototype_fn_name(s.identifier_str, getNextToken(s)))
          : s \in {S} })

parseDefinition_e(Proto, E) ==
    The({ (IF e.res # nullptr
           THEN [st |-> e.st, res |-> FunctionAST(proto, e.res)]
           ELSE [st |-> e.st, res |-> nullptr])
          : proto \in {Proto}, e \in {E} })

\* parseDefinition_proto skipping a token itself when the prototype failed.
parseDefinition_proto_skips(Proto) ==
    The({ (IF proto.res = nullptr
           THEN [st |-> getNextToken(proto.st), res |-> nullptr]
           ELSE parseDefinition_e(proto.res, parseExpression(proto.st)))
          : proto \in {Proto} })

parseDefinition_proto(Proto) ==
    The({ (IF proto.res = nullptr
           THEN proto
           ELSE parseDefinition_e(proto.res, parseExpression(proto.st)))
          : proto \in {Proto} })

parseDefinition(s) == parseDefinition_proto(parsePrototype(getNextToken(s)))

parseTopLevelExpr_e(E) ==
    The({ (IF e.res # nullptr
           THEN [st |-> e.st, res |-> FunctionAST(PrototypeAST(<< >>, << >>), e.res)]
           ELSE [st |-> e.st, res |-> nullptr])
          : e \in {E} })

parseTopLevelExpr(s) == parseTopLevelExpr_e(parseExpression(s))

parseExtern(s) == parsePrototype(getNextToken(s))

-----------------------------------------------------------------------------
(* Top-level parsing.  A handler returns the state after it; the value its *)
(* condition tested is kept in the history field result.                   *)

Parsed(what) == << "Parsed", what >>

Ready == << "ready> " >>

\* Handled without the getNextToken that skips a token for error recovery.
Handled_no_skip(R, what) ==
    The({ (IF r.res # nullptr
           THEN [r.st EXCEPT !.stderr = Append(@, Parsed(what)), !.result = r.res]
           ELSE [r.st EXCEPT !.result = r.res])
          : r \in {R} })

\* if (r) fprintf(stderr, what); else getNextToken();
Handled(R, what) ==
    The({ (IF r.res # nullptr
           THEN [r.st EXCEPT !.stderr = Append(@, Parsed(what)), !.result = r.res]
           ELSE [getNextToken(r.st) EXCEPT !.result = r.res])
          : r \in {R} })

handleDefinition(s) == Handled(parseDefinition(s), "a function definition.")

handleExtern(s) == Handled(parseExtern(s), "an extern")

handleTopLevelExpression(s) == Handled(parseTopLevelExpr(s), "a top-level expr")

\* fprintf(stderr, "ready> ");
Prompt(s) == [s EXCEPT !.stderr = Append(@, Ready)]

Installed == (60 :> 10) @@ (43 :> 20) @@ (45 :> 20) @@ (42 :> 40)

\* main, up to the call of mainLoop.
Start(s) == getNextToken(Prompt([s EXCEPT !.BinopPrecedence = Installed]))

Main ==
    /\ pc = "start"
    /\ Becomes(Start(State))
    /\ pc' = "loop"

\* One iteration of mainLoop, by the case of its switch.
MainLoopEof ==
    /\ pc = "loop"
    /\ cur_tok = tok_eof
    /\ Becomes(Prompt(State))
    /\ pc' = "done"

MainLoopSemicolon ==
    /\ pc = "loop"
    /\ cur_tok = 59
    /\ Becomes(getNextToken(Prompt(State)))
    /\ UNCHANGED pc

MainLoopDefinition ==
    /\ pc = "loop"
    /\ cur_tok = tok_def
    /\ Becomes(handleDefinition(Prompt(State)))
    /\ UNCHANGED pc

MainLoopExtern ==
    /\ pc = "loop"
    /\ cur_tok = tok_extern
    /\ Becomes(handleExtern(Prompt(State)))
    /\ UNCHANGED pc

MainLoopExpression ==
    /\ pc = "loop"
    /\ cur_tok \notin {tok_eof, 59, tok_def, tok_extern}
    /\ Becomes(handleTopLevelExpression(Prompt(State)))
    /\ UNCHANGED pc

-----------------------------------------------------------------------------
(* Inputs.                                                                 *)

RECURSIVE Cat(_)
Cat(strs) == IF strs = << >> THEN << >> ELSE Head(strs) \o Cat(Tail(strs))

RECURSIVE Join(_, _)
Join(strs, sep) ==
    IF Len(strs) <= 1 THEN Cat(strs)
    ELSE Head(strs) \o sep \o Join(Tail(strs), sep)

SeqsUpTo(S, n) == UNION { [1..k -> S] : k \in 0..n }

OperatorChars == DOMAIN Installed

\* The i-th operand of a chain: the i-th letter, or the digit i.
Operand(kind, i) == IF kind = "id" THEN << 96 + i >> ELSE << 48 + i >>

\* operand 1, ops[1], operand 2, ..., ops[n], operand n+1
Chain(kind, ops) ==
    [i \in 1..(2 * Len(ops) + 1) |->
        IF i % 2 = 1 THEN Operand(kind, (i + 1) \div 2)[1] ELSE ops[i \div 2]]

Chains(kind, n) ==
    { Chain(kind, ops) : ops \in UNION { [1..k -> OperatorChars] : k \in 1..n } }

ChainInputs == Chains("id", MaxOperators) \cup Chains("num", MaxOperators)

\* A parenthesised chain inside x o _ o' y, o and o' the lowest or the
\* highest operator or absent.
Before == { << >>, Str(<< "x", "<" >>), Str(<< "x", "*" >>) }
After == { << >>, Str(<< "<", "y" >>), Str(<< "*", "y" >>) }
Inner == Chains("num", MaxNested) \cup { Str(<< "(", "1", "+", "2", ")", "*", "3" >>) }

Paren(pre, e, post) == pre \o Str(<< "(" >>) \o e \o Str(<< ")" >>) \o post

ParenInputs == { Paren(pre, e, post) : pre \in Before, e \in Inner, post \in After }

\* The same with something else where the ')' should be.
NotRParen == { << >>, Str(<< ";" >>), Str(<< " ", "y" >>), Str(<< "(" >>) }

Unclosed(pre, e, bad) == pre \o Str(<< "(" >>) \o e \o bad

UnclosedInputs == { Unclosed(pre, e, bad) : pre \in Before, e \in Inner, bad \in NotRParen }

\* Calls of f with up to MaxArgs arguments.
ArgExprs ==
    { Str(<< "1" >>), Str(<< "x" >>), Str(<< "1", "+", "x" >>),
      Str(<< "g", "(", ")" >>), Str(<< "(", "y", ")" >>) }
Callees == { Str(<< "f" >>), Str(<< "f", "o", "o" >>) }
Commas == { Str(<< "," >>), Str(<< ",", " " >>) }
CallAfter == { << >>, Str(<< "+", "1" >>) }

CallOf(f, args, comma, post) ==
    f \o Str(<< "(" >>) \o Join(args, comma) \o Str(<< ")" >>) \o post

CallInputs ==
    { CallOf(f, args, comma, post) :
        f \in Callees, args \in SeqsUpTo(ArgExprs, MaxArgs),
        comma \in Commas, post \in CallAfter }

\* Calls with something other than ')' or ',' after an argument, and calls
\* with a ',' that no expression follows.
NotCommaRParen == { << >>, Str(<< ";" >>), Str(<< " ", "y" >>), Str(<< "!" >>) }
NotExpression == { << >>, Str(<< ")" >>), Str(<< ";" >>), Str(<< "," >>) }

BadCall(f, args, comma, bad) ==
    f \o Str(<< "(" >>) \o Join(args, comma) \o bad

BadCallInputs ==
    { BadCall(Str(<< "f" >>), args, Str(<< "," >>), bad) :
        args \in SeqsUpTo(ArgExprs, MaxArgs) \ { << >> }, bad \in NotCommaRParen }
    \cup
    { BadCall(Str(<< "f" >>), args, Str(<< "," >>), Str(<< "," >>) \o bad) :
        args \in SeqsUpTo(ArgExprs, MaxArgs) \ { << >> }, bad \in NotExpression }

\* An identifier that no '(' follows.
NotLParen ==
    { << >>, Str(<< ")" >>), Str(<< ";" >>), Str(<< " ", "y" >>), Str(<< "," >>),
      Str(<< "!" >>) }

VariableInputs == { f \o post : f \in Callees, post \in NotLParen }

\* Well-formed top-level constructs, and ';'-separated sequences of them.
Definitions ==
    { Str(<< "d","e","f"," ","f","o","o","(","a"," ","b",")"," ","a","+","b" >>),
      Str(<< "d","e","f"," ","f","(",")","1" >>),
      Str(<< "d","e","f","\n","g","(","x",")","\n","g","(","x","*","2",")" >>) }
Externs ==
    { Str(<< "e","x","t","e","r","n"," ","s","i","n","(","a",")" >>),
      Str(<< "e","x","t","e","r","n"," ","f","(",")" >>) }
Expressions ==
    { Str(<< "1","+","1" >>), Str(<< "1","+","2","*","3" >>),
      Str(<< "(","1","+","2",")","*","3" >>), Str(<< "f","o","o","(","1",","," ","x",")" >>),
      Str(<< "x" >>), Str(<< "1",".","2",".","3" >>) }
Constructs == Definitions \cup Externs \cup Expressions
Separators == { Str(<< ";" >>), Str(<< " ", ";", "\n" >>) }

WellFormedInputs ==
    { Join(units, sep) \o last :
        units \in SeqsUpTo(Constructs, MaxUnits) \ { << >> },
        sep \in Separators, last \in { << >>, Str(<< ";" >>) } }

\* Arbitrary input: up to MaxLexemes lexemes, one after the other.
Lexemes ==
    { Str(<< "d","e","f"," " >>), Str(<< "e","x","t","e","r","n"," " >>),
      Str(<< "f" >>), Str(<< "x", " " >>), Str(<< "1" >>), Str(<< "(" >>),
      Str(<< ")" >>), Str(<< ";" >>), Str(<< "+" >>), Str(<< "!" >>) }

LexemeInputs == { Cat(ls) : ls \in SeqsUpTo(Lexemes, MaxLexemes) }

MissingRParen ==
    Str(<< "d","e","f"," ","f","o","o","(","a"," ","b"," ","a","+","b" >>)

Inputs ==
    ChainInputs \cup ParenInputs \cup UnclosedInputs \cup CallInputs
    \cup BadCallInputs \cup VariableInputs \cup WellFormedInputs
    \cup LexemeInputs \cup { MissingRParen }

\* The globals as main finds them.
InitialState(str) ==
    [ input |-> str, pos |-> 0, last_char |-> 32, identifier_str |-> << >>,
      num_val |-> [int |-> << >>, frac |-> << >>], cur_tok |-> 0,
      BinopPrecedence |-> << >>, stderr |-> << >>, nread |-> 0, ntok |-> 0,
      at_error |-> NoError, result |-> NoError ]

Init ==
    /\ input \in Inputs
    /\ pos = 0
    /\ last_char = 32
    /\ identifier_str = << >>
    /\ num_val = [int |-> << >>, frac |-> << >>]
    /\ cur_tok = 0
    /\ BinopPrecedence = << >>
    /\ stderr = << >>
    /\ pc = "start"
    /\ nread = 0
    /\ ntok = 0
    /\ at_error = NoError
    /\ result = NoError

InitLex ==
    /\ input \in Inputs
    /\ pos = 0
    /\ last_char = 32
    /\ identifier_str = << >>
    /\ num_val = [int |-> << >>, frac |-> << >>]
    /\ cur_tok = 0
    /\ BinopPrecedence = << >>
    /\ stderr = << >>
    /\ pc = "lex"
    /\ nread = 0
    /\ ntok = 0
    /\ at_error = NoError
    /\ result = NoError

\* One more call of getNextToken, whatever the previous one returned.
Lex ==
    /\ pc = "lex"
    /\ ntok < MaxLexCalls
    /\ Becomes(getNextToken(State))
    /\ UNCHANGED pc

LexSpec == InitLex /\ [][Lex]_vars

Next ==
    \/ Main
    \/ MainLoopEof
    \/ MainLoopSemicolon
    \/ MainLoopDefinition
    \/ MainLoopExtern
    \/ MainLoopExpression

Spec == Init /\ [][Next]_vars

FairSpec == Spec /\ WF_vars(Next)

-----------------------------------------------------------------------------
(* What the checked properties speak about.                                *)

IsError(line) == line[1] = "Error"
IsParsed(line) == line[1] = "Parsed"
IsReport(line) == line # Ready

\* The lines of stderr other than the prompts.
Reports(log) == SelectSeq(log, IsReport)

\* The number of prompts written: one by main, one by every iteration.
Prompts(log) == Len(log) - Len(Reports(log))

\* The first dispatched parse has returned and no later iteration has run.
FirstDispatchDone == result # NoError /\ Prompts(stderr) = 2

\* One iteration of mainLoop that dispatches a parse.
Dispatch == pc = "loop" /\ cur_tok \notin {tok_eof, 59}

\* The tree of the expression a top-level expression was wrapped from.
Body == result.body

\* The primary that the one-character operand ch is parsed to.
LeafOf(ch) ==
    IF isalpha(ch)
    THEN VariableExprAST(<< ch >>)
    ELSE NumberExprAST([int |-> << ch - 48 >>, frac |-> << >>])

\* The tree that parsing str, from its first token, as an expression returns.
ExprOf(str) == parseExpression(Start(InitialState(str))).res

\* The token the lexer returns first on str.
FirstTokenOf(str) == getTok(InitialState(str)).res

\* The number of operands of an operator chain, and its text.
RECURSIVE Size(_)
Size(t) == IF t.type = "BinaryExprAST" THEN Size(t.lhs) + Size(t.rhs) ELSE 1

RECURSIVE InOrder(_)
InOrder(t) ==
    CASE t.type = "BinaryExprAST" -> InOrder(t.lhs) \o << t.op >> \o InOrder(t.rhs)
      [] t.type = "VariableExprAST" -> t.name
      [] t.type = "NumberExprAST" -> << 48 + t.val.int[1] >>

\* The node of the i-th operator of the chain that t is the tree of.
RECURSIVE NodeAt(_, _)
NodeAt(t, i) ==
    IF i = Size(t.lhs) THEN t
    ELSE IF i < Size(t.lhs) THEN NodeAt(t.lhs, i)
    ELSE NodeAt(t.rhs, i - Size(t.lhs))

\* The chain that is the input: its operators, their number, precedences.
OpOf(i) == input[2 * i]
NumOps == (Len(input) - 1) \div 2
Prec(i) == Installed[OpOf(i)]

\* The last operand of the run of operators after the i-th that all bind
\* tighter than the i-th.
RECURSIVE RunEnd(_, _)
RunEnd(i, j) ==
    IF j <= NumOps /\ Prec(j) > Prec(i) THEN RunEnd(i, j + 1) ELSE j

\* C1: in the tree of an unparenthesised operator chain (whose text, read in
\* order, is the chain), the right child of every operator that a strictly
\* tighter operator follows is the tree of that operator's sub-expression:
\* it reads as the operands and operators from the next operand to the end
\* of the run of tighter operators, so the next operator's node lies in it;
\* and a o1 b o2 c with prec(o2) > prec(o1) is Binary(o1, a, Binary(o2, b, c)).
HigherPrecedenceBindsTighter ==
    (input \in ChainInputs /\ FirstDispatchDone) =>
        /\ result # nullptr
        /\ InOrder(Body) = input
        /\ cur_tok = tok_eof
        /\ \A i \in 1..(NumOps - 1) :
              Prec(i + 1) > Prec(i) =>
                  /\ NodeAt(Body, i).op = OpOf(i)
                  /\ NodeAt(Body, i).rhs.type = "BinaryExprAST"
                  /\ InOrder(NodeAt(Body, i).rhs)
                         = SubSeq(input, 2 * i + 1, 2 * RunEnd(i, i + 1) - 1)
        /\ (NumOps = 2 /\ Prec(2) > Prec(1)) =>
              Body = BinaryExprAST(OpOf(1), LeafOf(input[1]),
                         BinaryExprAST(OpOf(2), LeafOf(input[3]), LeafOf(input[5])))

\* 1+2*3 has been parsed to +(1, *(2,3)).
HigherPrecedenceWitness ==
    /\ input = Str(<< "1", "+", "2", "*", "3" >>)
    /\ FirstDispatchDone
    /\ Body = BinaryExprAST(43, LeafOf(49), BinaryExprAST(42, LeafOf(50), LeafOf(51)))

\* C2: in the tree of an unparenthesised operator chain, of two adjacent
\* operators of equal precedence the first has the operand between them as
\* its right child and is itself the left child of the second; and
\* a o1 b o2 c with prec(o1) = prec(o2) is Binary(o2, Binary(o1, a, b), c).
EqualPrecedenceAssociatesLeft ==
    (input \in ChainInputs /\ FirstDispatchDone) =>
        /\ result # nullptr
        /\ \A i \in 1..(NumOps - 1) :
              Prec(i) = Prec(i + 1) =>
                  /\ NodeAt(Body, i).op = OpOf(i)
                  /\ NodeAt(Body, i).rhs = LeafOf(input[2 * i + 1])
                  /\ NodeAt(Body, i + 1).op = OpOf(i + 1)
                  /\ NodeAt(Body, i + 1).lhs = NodeAt(Body, i)
        /\ (NumOps = 2 /\ Prec(1) = Prec(2)) =>
              Body = BinaryExprAST(OpOf(2),
                         BinaryExprAST(OpOf(1), LeafOf(input[1]), LeafOf(input[3])),
                         LeafOf(input[5]))

\* 1-2-3 has been parsed to -(-(1,2), 3).
EqualPrecedenceWitness ==
    /\ input = Str(<< "1", "-", "2", "-", "3" >>)
    /\ FirstDispatchDone
    /\ Body = BinaryExprAST(45, BinaryExprAST(45, LeafOf(49), LeafOf(50)), LeafOf(51))

\* t with every occurrence of the leaf old replaced by the tree new.
RECURSIVE Subst(_, _, _)
Subst(t, old, new) ==
    IF t = old THEN new
    ELSE IF t.type = "BinaryExprAST"
    THEN BinaryExprAST(t.op, Subst(t.lhs, old, new), Subst(t.rhs, old, new))
    ELSE t

\* The node types of a tree.
RECURSIVE NodeTypes(_)
NodeTypes(t) ==
    {t.type} \cup
        CASE t.type = "BinaryExprAST" -> NodeTypes(t.lhs) \cup NodeTypes(t.rhs)
          [] t.type = "CallExprAST" ->
                UNION { NodeTypes(t.args[i]) : i \in 1..Len(t.args) }
          [] OTHER -> {}

Placeholder == Str(<< "p" >>)

\* C8: a parenthesised expression ( e ), alone or as an operand of a chain
\* x o ( e ) o' y, is parsed to the tree that the chain with a single
\* identifier in the place of ( e ) is parsed to, with the tree of e in the
\* place of that identifier: the parentheses leave no node and the tree of
\* e is one operand whatever operators e holds; and when something other
\* than ')' follows e the parse fails with the one diagnostic expected ')'.
ParenthesesOverridePrecedence ==
    /\ (FirstDispatchDone /\ input \in ParenInputs) =>
          \A pre \in Before, e \in Inner, post \in After :
              input = Paren(pre, e, post) =>
                  /\ result # nullptr
                  /\ Body = Subst(ExprOf(pre \o Placeholder \o post),
                                  VariableExprAST(Placeholder), ExprOf(e))
                  /\ NodeTypes(Body) \subseteq
                         {"BinaryExprAST", "NumberExprAST", "VariableExprAST"}
                  /\ cur_tok = tok_eof
    /\ (FirstDispatchDone /\ input \in UnclosedInputs) =>
          /\ result = nullptr
          /\ Reports(stderr) = << Message("expected ')'") >>

\* (1+2)*3 has been parsed to *(+(1,2), 3).
ParenthesesWitness ==
    /\ input = Str(<< "(", "1", "+", "2", ")", "*", "3" >>)
    /\ FirstDispatchDone
    /\ Body = BinaryExprAST(42, BinaryExprAST(43, LeafOf(49), LeafOf(50)), LeafOf(51))

\* The trees of the argument texts args, in order.
ArgsOf(args) == [i \in 1..Len(args) |-> ExprOf(args[i])]

\* C9: f( a1, ..., an ), n >= 0, is parsed to the Call of f whose argument
\* vector holds the trees of a1 .. an in order, and the ')' is consumed (the
\* token after it is current, and an operator after it takes the Call as its
\* left operand); an identifier that no '(' follows is parsed to a
\* VariableRef after one more token has been read, which is then current;
\* anything but ')' or ',' after an argument, and a ',' that no expression
\* follows, fail the parse with one diagnostic.
CallParsing ==
    /\ (FirstDispatchDone /\ input \in CallInputs) =>
          \A f \in Callees, args \in SeqsUpTo(ArgExprs, MaxArgs), comma \in Commas :
              /\ input = CallOf(f, args, comma, << >>) =>
                    /\ Body = CallExprAST(f, ArgsOf(args))
                    /\ cur_tok = tok_eof
              /\ input = CallOf(f, args, comma, Str(<< "+", "1" >>)) =>
                    /\ Body = BinaryExprAST(43, CallExprAST(f, ArgsOf(args)), LeafOf(49))
                    /\ cur_tok = tok_eof
    /\ (FirstDispatchDone /\ input \in VariableInputs) =>
          \A f \in Callees, post \in NotLParen :
              input = f \o post =>
                  /\ Body = VariableExprAST(f)
                  /\ cur_tok = FirstTokenOf(post)
                  /\ ntok = 2
    /\ (FirstDispatchDone /\ input \in BadCallInputs) =>
          \A args \in SeqsUpTo(ArgExprs, MaxArgs) \ { << >> } :
              /\ \A bad \in NotCommaRParen :
                    input = BadCall(Str(<< "f" >>), args, Str(<< "," >>), bad) =>
                        /\ result = nullptr
                        /\ Reports(stderr)
                               = << Message("Expected ')' or ',' in argument list") >>
              /\ \A bad \in NotExpression :
                    input = BadCall(Str(<< "f" >>), args, Str(<< "," >>),
                                    Str(<< "," >>) \o bad) =>
                        /\ result = nullptr
                        /\ Reports(stderr)
                               = << Message("unknown token when expecting an expression") >>

\* foo(1, x) has been parsed to the Call of foo with Number(1) and
\* VariableRef(x).
CallWitness ==
    /\ input = Str(<< "f", "o", "o", "(", "1", ",", " ", "x", ")" >>)
    /\ FirstDispatchDone
    /\ Body = CallExprAST(Str(<< "f", "o", "o" >>),
                  << LeafOf(49), VariableExprAST(Str(<< "x" >>)) >>)
    /\ cur_tok = tok_eof

\* The pieces of str between the occurrences of the character c.
RECURSIVE Split(_, _, _)
Split(str, c, piece) ==
    IF str = << >> THEN << piece >>
    ELSE IF Head(str) = c THEN << piece >> \o Split(Tail(str), c, << >>)
    ELSE Split(Tail(str), c, Append(piece, Head(str)))

RECURSIVE Strip(_)
Strip(str) ==
    IF str # << >> /\ isspace(Head(str)) THEN Strip(Tail(str))
    ELSE IF str # << >> /\ isspace(str[Len(str)])
    THEN Strip(SubSeq(str, 1, Len(str) - 1))
    ELSE str

NonEmpty(str) == str # << >>

\* The constructs of a ';'-separated input, and the positions of its ';'.
UnitsOf(str) == SelectSeq([i \in 1..Len(Split(str, 59, << >>)) |->
                              Strip(Split(str, 59, << >>)[i])], NonEmpty)

RECURSIVE Positions(_, _, _)
Positions(str, c, i) ==
    IF i > Len(str) THEN << >>
    ELSE IF str[i] = c THEN << i >> \o Positions(str, c, i + 1)
    ELSE Positions(str, c, i + 1)

\* The confirmation that the driver writes for a well-formed construct.
ConfirmationOf(unit) ==
    IF unit \in Definitions THEN Parsed("a function definition.")
    ELSE IF unit \in Externs THEN Parsed("an extern")
    ELSE Parsed("a top-level expr")

\* The number of the construct that a dispatch at the current state parses:
\* one more than the confirmations written so far.
UnitNo(log) == Len(Reports(log)) + 1

\* The state right after the n-th construct of the input has been parsed:
\* the ';' after it is current and the character after that ';' is the
\* lookahead, or there is no ';' after it and the end token is current.
AfterUnit(n, tok, p) ==
    IF n <= Len(Positions(input, 59, 1))
    THEN /\ tok = 59
         /\ p = IF Positions(input, 59, 1)[n] < Len(input)
                THEN Positions(input, 59, 1)[n] + 1
                ELSE Len(input)
    ELSE /\ tok = tok_eof
         /\ p = Len(input)

\* A step of the driver on a ';'-separated sequence of well-formed
\* constructs.
WellFormedStep ==
    input \in WellFormedInputs =>
        /\ Dispatch =>
              /\ UnitNo(stderr) <= Len(UnitsOf(input))
              /\ result' # nullptr
              /\ Reports(stderr') =
                     Append(Reports(stderr),
                            ConfirmationOf(UnitsOf(input)[UnitNo(stderr)]))
              /\ AfterUnit(UnitNo(stderr), cur_tok', pos')
        /\ pc' = "done" =>
              Reports(stderr') =
                  [i \in 1..Len(UnitsOf(input)) |-> ConfirmationOf(UnitsOf(input)[i])]

\* C3: on a ';'-separated sequence of well-formed constructs, every dispatch
\* of the driver parses the next construct: it returns a tree, writes the
\* confirmation of that construct's kind and no diagnostic, and leaves the
\* token after the construct current (the ';' that follows it, or the end
\* token); when mainLoop returns, stderr holds exactly one confirmation per
\* construct, in input order.
WellFormedInputParses == [][WellFormedStep]_vars

\* def foo(a b) a+b ; extern sin(a) has been parsed: two confirmations, the
\* last tree the prototype of sin.
WellFormedWitness ==
    /\ input = Str(<< "d","e","f"," ","f","o","o","(","a"," ","b",")"," ","a","+","b",
                      " ", ";", "\n",
                      "e","x","t","e","r","n"," ","s","i","n","(","a",")" >>)
    /\ pc = "done"
    /\ Reports(stderr) = << Parsed("a function definition."), Parsed("an extern") >>
    /\ result = PrototypeAST(Str(<< "s","i","n" >>), << Str(<< "a" >>) >>)

\* The number of tokens the lexer has still to deliver before the end token.
RECURSIVE TokensLeft_tok(_)
TokensLeft(s) == TokensLeft_tok(getTok(s))
TokensLeft_tok(T) ==
    The({ (IF t.res = tok_eof THEN 0 ELSE 1 + TokensLeft(t.st))
          : t \in {T} })

\* The tokens not yet consumed: the current one, unless it is the end token,
\* and those the lexer has still to deliver.
Unconsumed == (IF cur_tok = tok_eof THEN 0 ELSE 1) + TokensLeft(State)

\* An iteration of mainLoop that does not return consumes a token.
IterationConsumes == (pc = "loop" /\ pc' = "loop") => Unconsumed' < Unconsumed

\* C4: every iteration of mainLoop returns, at the end token, or leaves fewer
\* tokens unconsumed than it found, and mainLoop eventually returns, on every
\* input.
DriverTerminates == [][IterationConsumes]_vars /\ <>(pc = "done")

\* mainLoop has returned on def f( followed by the end of input, after one
\* diagnostic.
DriverTerminatesWitness ==
    /\ input = Str(<< "d","e","f"," ","f","(" >>)
    /\ pc = "done"
    /\ Reports(stderr) = << Message("Expected ')' in prototype") >>

\* The part of a state that the lexer and getNextToken read and write.
LexerView(s) ==
    [ pos |-> s.pos, last_char |-> s.last_char, cur_tok |-> s.cur_tok,
      identifier_str |-> s.identifier_str, num_val |-> s.num_val,
      nread |-> s.nread, ntok |-> s.ntok ]

\* A dispatch whose parse fails: logError was called in this iteration, and
\* the state after the iteration is the state of that call advanced by
\* exactly one getNextToken; on def foo(a b a+b the definition fails with
\* Expected ')' in prototype at the '+', which is skipped, and b is parsed
\* as the next top-level expression.
RecoveryStep ==
    /\ (Dispatch /\ result' = nullptr) =>
          /\ at_error' # NoError
          /\ at_error'.ntok >= ntok
          /\ at_error'.stderr = Append(stderr, Ready)
          /\ LexerView(State') = LexerView(getNextToken(at_error'))
          /\ ntok' = at_error'.ntok + 1
    /\ (input = MissingRParen /\ pc' = "done") =>
          /\ Reports(stderr') = << Message("Expected ')' in prototype"),
                                   Parsed("a top-level expr") >>
          /\ at_error'.cur_tok = 43
          /\ result' = FunctionAST(PrototypeAST(<< >>, << >>),
                                   VariableExprAST(Str(<< "b" >>)))

\* C5: error recovery skips exactly one token, the one that was current when
\* the failure was detected, and the next dispatch starts at the token after
\* it.
RecoverySkipsOneToken == [][RecoveryStep]_vars

\* A definition has failed at a def where its function name should be, and
\* that def has been skipped.
RecoveryWitness ==
    /\ result = nullptr
    /\ at_error # NoError
    /\ at_error.cur_tok = tok_def
    /\ ntok = at_error.ntok + 1
    /\ Prompts(stderr) = 2

\* The lines a step adds to stderr.
Written == SubSeq(stderr', Len(stderr) + 1, Len(stderr'))

\* A dispatch writes the prompt and one more line: a confirmation, and then
\* the parse returned a tree and logError was not called, or a diagnostic,
\* and then the parse returned no tree.
DispatchStep ==
    Dispatch =>
        /\ Len(Written) = 2
        /\ Written[1] = Ready
        /\ \/ /\ IsParsed(Written[2])
              /\ result' # nullptr
              /\ result'.type \in {"FunctionAST", "PrototypeAST"}
              /\ at_error' = at_error
           \/ /\ IsError(Written[2])
              /\ result' = nullptr

\* C6: every dispatch ends with one confirmation and no diagnostic, or with
\* one diagnostic and no parsed unit, wherever in the nesting the failure is.
OneOutcomePerDispatch == [][DispatchStep]_vars

\* x<(1+2 followed by the end of input has failed, inside a parenthesis
\* inside the right-hand side of an operator, with one diagnostic.
OneOutcomeWitness ==
    /\ input = Str(<< "x", "<", "(", "1", "+", "2" >>)
    /\ FirstDispatchDone
    /\ result = nullptr
    /\ stderr = << Ready, Ready, Message("expected ')'") >>

\* Once getNextToken has returned the end token, one more call returns it
\* again, calls getchar no more and leaves the lookahead where it is.
LexAtEof ==
    (pc = "lex" /\ ntok > 0 /\ cur_tok = tok_eof) =>
        /\ ntok' = ntok + 1
        /\ cur_tok' = tok_eof
        /\ nread' = nread
        /\ pos' = pos
        /\ last_char' = last_char
        /\ last_char = EOF

\* C7: the lexer is idempotent at the end of input.
LexerIdempotentAtEof == [][LexAtEof]_vars

\* The end token has been returned three times after the identifier f and
\* the whitespace after it.
LexerIdempotentWitness ==
    /\ pc = "lex"
    /\ input = Str(<< "x", " " >>)
    /\ ntok = 4
    /\ cur_tok = tok_eof

====
